---- MODULE Spec2Model ----
(***************************************************************************)
(* Model of the scheduling engine of firecrawl-webui: the Store            *)
(* (lib/db/queries.ts over lib/db/schema.ts), the SchedulerService         *)
(* singleton (lib/scheduler/scheduler.ts), the schedule routes and the     *)
(* startup route.                                                          *)
(*                                                                         *)
(* Every handler is cut at its awaits.  A step is one Store operation      *)
(* taking effect together with the synchronous code that consumes its      *)
(* result; timestamps are read from the clock in the step that writes      *)
(* them.  Nullable columns hold <<>> for NULL, <<-1>> for the empty string *)
(* '' and <<t>> for the instant t.                                         *)
(***************************************************************************)
EXTENDS Integers, FiniteSets, Sequences, TLC

\* ---- bounds -------------------------------------------------------------
MaxJobs == 1
MaxExecs == 2
MaxClock == 1
MaxFaults == 1
MaxRequests == 1
MaxCleanupTasks == 2
\* minutes searched for the next fire of a cron expression: one day
Horizon == 1440

JobIds == 1..MaxJobs

\* interval values a create request may carry (0 is falsy in `!config.interval`)
Intervals == {0, 1}

Null == <<>>
Empty == << -1 >>
Some(v) == <<v>>


VARIABLES
  scheduledJobs,   \* table scheduled_jobs: set of rows
  jobRuns,         \* table job_runs: set of rows
  tasks,           \* SchedulerService.tasks: one handle per job id, with the job captured by its callback
  isRunning,       \* SchedulerService.isRunning
  cleanupTasks,    \* number of live '0 2 * * *' cleanup crons
  execs,           \* invocations of executeJob / executeJobManually
  pending,         \* POST and PUT requests between their Store write and their scheduler call
  clock,           \* wall clock, in minutes
  nextJobId,       \* ids handed out by POST /schedules so far
  deleted,         \* history: ids whose DELETE has completed
  faults           \* history: Store operations that threw plus process crashes

vars == <<scheduledJobs, jobRuns, tasks, isRunning, cleanupTasks, execs, pending, clock,
          nextJobId, deleted, faults>>

\* outcome of one Store operation: TRUE = done, FALSE = StoreError thrown
StoreOutcomes == IF faults < MaxFaults THEN {TRUE, FALSE} ELSE {TRUE}

CountStoreError(ok) == faults' = IF ok THEN faults ELSE faults + 1

\* ---- Store --------------------------------------------------------------

getScheduledJob(id) == {j \in scheduledJobs : j.id = id}

getActiveScheduledJobs == {j \in scheduledJobs : j.isActive}

getJobRuns(scheduledJobId) == {r \in jobRuns : r.scheduledJobId = scheduledJobId}

getRunningJobs == {r \in jobRuns : r.status = "running"}

\* UPDATE scheduled_jobs SET last_run_at, next_run_at WHERE id: no row, no effect
updateLastRunTime(jobs, id, lastRunAt, nextRunAt) ==
  {IF j.id = id THEN [j EXCEPT !.lastRunAt = lastRunAt, !.nextRunAt = nextRunAt] ELSE j : j \in jobs}

\* references(() => scheduledJobs.id): the insert is refused when the parent row is gone
ForeignKeyOk(jobs, scheduledJobId) == \E j \in jobs : j.id = scheduledJobId

\* mutant: the delete leaves the runs of the job behind
NoCascade(runs, id) == runs

\* onDelete: 'cascade'
CascadeJobRuns(runs, id) == {r \in runs : r.scheduledJobId # id}

deleteScheduledJob(jobs, id) == {j \in jobs : j.id # id}

NewJobRun(runId, scheduledJobId, runType) ==
  [id |-> runId, scheduledJobId |-> scheduledJobId, runType |-> runType,
   status |-> "running", startedAt |-> clock, completedAt |-> Null,
   resultData |-> Null, errorMessage |-> Null, executionTimeMs |-> Null]

\* UPDATE job_runs SET ... WHERE id: only the columns named by the patch change
updateJobRun(runs, id, patch) ==
  {IF r.id = id
     THEN [f \in DOMAIN r |-> IF f \in DOMAIN patch THEN patch[f] ELSE r[f]]
     ELSE r : r \in runs}

\* ---- Recurrence (interval schedules, unit = minutes) -------------------

\* the cron string, or Null for "return null"
buildCronExpression(job) ==
  IF job.interval = 0 THEN Null ELSE Some(job.interval)

\* now.plus({minutes: interval}), or Null
calculateNextRun(job) ==
  IF job.interval = 0 THEN Null ELSE Some(clock + job.interval)

\* calculateNextRun of the create route
routeCalculateNextRun(interval) == Some(clock + interval)

\* ---- SchedulerService ---------------------------------------------------

unscheduleJob(ts, jobId) == {h \in ts : h.id # jobId}

\* cron.schedule returns a new task object: it carries the first serial that
\* no live handle of the job carries
NewSerial(ts, jobId) ==
  CHOOSE n \in 1..(Cardinality(ts) + 1) :
    /\ \A h \in ts : h.id = jobId => h.serial # n
    /\ \A m \in 1..(n - 1) : \E h \in ts : h.id = jobId /\ h.serial = m

Handle(ts, job) ==
  [id |-> job.id, interval |-> job.interval, serial |-> NewSerial(ts, job.id)]

\* mutant: scheduleJob registers on top of the handle the job already has
scheduleJobOnTop(ts, job) ==
  IF buildCronExpression(job) = Null
    THEN ts
    ELSE ts \cup {Handle(ts, job)}

\* tasks after scheduleJob(job)
scheduleJobTasks(ts, job) ==
  IF buildCronExpression(job) = Null
    THEN unscheduleJob(ts, job.id)
    ELSE unscheduleJob(ts, job.id) \cup {Handle(unscheduleJob(ts, job.id), job)}

\* scheduled_jobs after scheduleJob(job): lastRunAt is written from the snapshot
scheduleJobStore(jobs, job) ==
  IF buildCronExpression(job) = Null \/ calculateNextRun(job) = Null
    THEN jobs
    ELSE updateLastRunTime(jobs, job.id,
                           IF job.lastRunAt = Null THEN Empty ELSE job.lastRunAt,
                           calculateNextRun(job))

\* ---- executeJob / executeJobManually ------------------------------------

InFlight == {"create", "runner", "complete", "lastrun", "catch"}
Ended == {"returned", "threw"}

\* one invocation: the job its closure holds and its locals
\*   currentJob "found" | "missing" | "unread" : the result of the find
\*   error   what the catch block caught  ("none" | "runner" | "store")
\*   thrown  what left the handler        ("none" | "runner" | "store" | "notfound")
\*   updated what the last updateJobRun returned ("none" | "row" | "norow" | "failed")
NewExec(runId, jobId, interval, runType) ==
  [runId |-> runId, jobId |-> jobId, interval |-> interval, nextRunAt |-> Null,
   runType |-> runType, pc |-> "create", currentJob |-> "found",
   startTime |-> Null, invoked |-> FALSE, error |-> "none", thrown |-> "none",
   updated |-> "none"]

\* the handler is over: its closure and locals are dropped
EndExec(e, thrown) ==
  [e EXCEPT !.pc = IF thrown = "none" THEN "returned" ELSE "threw",
            !.thrown = thrown, !.interval = 0, !.nextRunAt = Null, !.startTime = Null]

SetExec(e, f) == (execs \ {e}) \cup {f}

NextRunId == Cardinality(execs) + 1

\* the patch of the success path
CompletedPatch(executionTime) ==
  [status |-> "completed", completedAt |-> Some(clock),
   resultData |-> Some("data"), executionTimeMs |-> Some(executionTime)]

\* the patch of the catch block; Date.now() - Date.now() is taken as 0
FailedPatch(runType, caught) ==
  IF runType = "scheduled"
    THEN [status |-> "failed", completedAt |-> Some(clock),
          errorMessage |-> Some(caught), executionTimeMs |-> Some(0)]
    ELSE [status |-> "failed", completedAt |-> Some(clock),
          errorMessage |-> Some(caught)]

\* mutant: the catch block of executeJobManually swallows the error too
CatchSwallows(runType, caught, writeOk) ==
  IF ~writeOk THEN "store" ELSE "none"

\* what leaves the handler after the catch block: executeJob swallows the
\* caught error, executeJobManually rethrows it; a failed write escapes both
CatchThrows(runType, caught, writeOk) ==
  IF ~writeOk THEN "store"
  ELSE IF runType = "manual" THEN caught
  ELSE "none"

\* next_run_at written after a successful run
NextRunAtAfterRun(e) ==
  IF calculateNextRun(e) # Null THEN calculateNextRun(e)
  ELSE IF e.runType = "scheduled" THEN Empty
  ELSE IF e.nextRunAt = Null THEN Empty ELSE e.nextRunAt

\* activeJobs.find(j => j.id === id)
FindActive(id) == {j \in getActiveScheduledJobs : j.id = id}

\* mutant: the guard returns without unscheduling
GuardKeepsHandle(ts, jobId, currentJob) == ts

\* tasks once the guard of executeJob has looked at currentJob
GuardTasks(ts, jobId, currentJob) ==
  IF currentJob = {} THEN unscheduleJob(ts, jobId) ELSE ts

\* the cron dispatcher fires the callback of a registered handle: executeJob
\* reads the active set and either unschedules and returns or goes on
TickFire(h) ==
  /\ h \in tasks
  /\ NextRunId <= MaxExecs
  /\ \E ok \in StoreOutcomes :
       /\ CountStoreError(ok)
       /\ LET e == NewExec(NextRunId, h.id, h.interval, "scheduled") IN
          IF ~ok
            THEN /\ execs' = execs \cup {[e EXCEPT !.pc = "catch", !.currentJob = "unread",
                                                   !.error = "store"]}
                 /\ tasks' = tasks
            ELSE /\ tasks' = GuardTasks(tasks, h.id, FindActive(h.id))
                 /\ execs' = execs \cup
                      {IF FindActive(h.id) = {}
                         THEN EndExec([e EXCEPT !.currentJob = "missing"], "none")
                         ELSE e}
  /\ UNCHANGED <<scheduledJobs, jobRuns, isRunning, cleanupTasks, pending, clock,
                 nextJobId, deleted>>

\* POST /schedules/{id}/run calls executeJobManually(id): the read is outside
\* the try, "not found" and a Store error both leave the handler
ManualFire(id) ==
  /\ id \in JobIds
  /\ NextRunId <= MaxExecs
  /\ \E ok \in StoreOutcomes :
       /\ CountStoreError(ok)
       /\ LET e == NewExec(NextRunId, id, 0, "manual") IN
          execs' = execs \cup
            {IF ~ok THEN EndExec([e EXCEPT !.currentJob = "unread"], "store")
             ELSE IF FindActive(id) = {} THEN EndExec([e EXCEPT !.currentJob = "missing"], "notfound")
             ELSE LET j == CHOOSE j \in FindActive(id) : TRUE IN
                  [e EXCEPT !.interval = j.interval, !.nextRunAt = j.nextRunAt]}
  /\ UNCHANGED <<scheduledJobs, jobRuns, tasks, isRunning, cleanupTasks, pending, clock,
                 nextJobId, deleted>>

\* the answer of POST /schedules/{id}/run: 200 when executeJobManually
\* resolved, 500 for whatever it threw
RunRouteStatus(e) == IF e.thrown = "none" THEN 200 ELSE 500

\* createJobRun(...), then startTime = Date.now() and the Runner is invoked
ExecCreate(e) ==
  /\ e \in execs /\ e.pc = "create"
  /\ \E ok \in StoreOutcomes :
       /\ CountStoreError(ok)
       /\ IF ok /\ ForeignKeyOk(scheduledJobs, e.jobId)
            THEN /\ jobRuns' = jobRuns \cup {NewJobRun(e.runId, e.jobId, e.runType)}
                 /\ execs' = SetExec(e, [e EXCEPT !.pc = "runner", !.startTime = Some(clock),
                                                  !.invoked = TRUE])
            ELSE /\ jobRuns' = jobRuns
                 /\ execs' = SetExec(e, [e EXCEPT !.pc = "catch", !.error = "store"])
  /\ UNCHANGED <<scheduledJobs, tasks, isRunning, cleanupTasks, pending, clock,
                 nextJobId, deleted>>

\* executeScheduledJob(job) resolves
RunnerReturns(e) ==
  /\ e \in execs /\ e.pc = "runner"
  /\ execs' = SetExec(e, [e EXCEPT !.pc = "complete"])
  /\ UNCHANGED <<scheduledJobs, jobRuns, tasks, isRunning, cleanupTasks, pending, clock,
                 nextJobId, deleted, faults>>

\* executeScheduledJob(job) rejects
RunnerThrows(e) ==
  /\ e \in execs /\ e.pc = "runner"
  /\ execs' = SetExec(e, [e EXCEPT !.pc = "catch", !.error = "runner"])
  /\ UNCHANGED <<scheduledJobs, jobRuns, tasks, isRunning, cleanupTasks, pending, clock,
                 nextJobId, deleted, faults>>

\* the row updateJobRun returns: undefined when no row has that id
WasUpdated(id) == IF \E r \in jobRuns : r.id = id THEN "row" ELSE "norow"

\* updateJobRun(runId, {status: 'completed', ...})
ExecComplete(e) ==
  /\ e \in execs /\ e.pc = "complete"
  /\ \E ok \in StoreOutcomes :
       /\ CountStoreError(ok)
       /\ IF ok
            THEN /\ jobRuns' = updateJobRun(jobRuns, e.runId, CompletedPatch(clock - e.startTime[1]))
                 /\ execs' = SetExec(e, [e EXCEPT !.pc = "lastrun", !.updated = WasUpdated(e.runId)])
            ELSE /\ jobRuns' = jobRuns
                 /\ execs' = SetExec(e, [e EXCEPT !.pc = "catch", !.error = "store"])
  /\ UNCHANGED <<scheduledJobs, tasks, isRunning, cleanupTasks, pending, clock,
                 nextJobId, deleted>>

\* updateLastRunTime(job.id, now, nextRun) after a successful run
ExecLastRun(e) ==
  /\ e \in execs /\ e.pc = "lastrun"
  /\ \E ok \in StoreOutcomes :
       /\ CountStoreError(ok)
       /\ IF ok
            THEN /\ scheduledJobs' = updateLastRunTime(scheduledJobs, e.jobId, Some(clock),
                                                       NextRunAtAfterRun(e))
                 /\ execs' = SetExec(e, EndExec(e, "none"))
            ELSE /\ scheduledJobs' = scheduledJobs
                 /\ execs' = SetExec(e, [e EXCEPT !.pc = "catch", !.error = "store"])
  /\ UNCHANGED <<jobRuns, tasks, isRunning, cleanupTasks, pending, clock,
                 nextJobId, deleted>>

\* the catch block: updateJobRun(runId, {status: 'failed', ...})
ExecCatch(e) ==
  /\ e \in execs /\ e.pc = "catch"
  /\ \E ok \in StoreOutcomes :
       /\ CountStoreError(ok)
       /\ jobRuns' = IF ok THEN updateJobRun(jobRuns, e.runId, FailedPatch(e.runType, e.error))
                           ELSE jobRuns
       /\ execs' = SetExec(e, EndExec([e EXCEPT !.updated = IF ok THEN WasUpdated(e.runId)
                                                                  ELSE "failed"],
                                      CatchThrows(e.runType, e.error, ok)))
  /\ UNCHANGED <<scheduledJobs, tasks, isRunning, cleanupTasks, pending, clock,
                 nextJobId, deleted>>

\* ---- routes -------------------------------------------------------------

NewScheduledJob(id, interval, isActive) ==
  [id |-> id, isActive |-> isActive, interval |-> interval,
   lastRunAt |-> Null, nextRunAt |-> routeCalculateNextRun(interval)]

\* the scheduler call a route makes once its Store write has resolved
ScheduleCall(route, job) == [route |-> route, call |-> "scheduleJob", job |-> job]
UnscheduleCall(route, job) == [route |-> route, call |-> "unscheduleJob", job |-> job]

\* POST /schedules: createScheduledJob(newJob); scheduleJob(createdJob) follows the await
PostSchedule(interval, isActive) ==
  /\ nextJobId <= MaxJobs
  /\ Cardinality(pending) < MaxRequests
  /\ LET job == NewScheduledJob(nextJobId, interval, isActive) IN
       /\ scheduledJobs' = scheduledJobs \cup {job}
       /\ pending' = IF isActive THEN pending \cup {ScheduleCall("POST", job)} ELSE pending
  /\ nextJobId' = nextJobId + 1
  /\ UNCHANGED <<jobRuns, tasks, isRunning, cleanupTasks, execs, clock, deleted, faults>>

\* PUT /schedules/{id} with body {isActive}: updateScheduledJob(id, updates);
\* scheduleJob(updatedJob) or unscheduleJob(id) follows the await
PutSchedule(id, isActive) ==
  /\ getScheduledJob(id) # {}
  /\ Cardinality(pending) < MaxRequests
  /\ LET updatedJob == [(CHOOSE j \in getScheduledJob(id) : TRUE) EXCEPT !.isActive = isActive] IN
       /\ scheduledJobs' = deleteScheduledJob(scheduledJobs, id) \cup {updatedJob}
       /\ pending' = pending \cup {IF updatedJob.isActive THEN ScheduleCall("PUT", updatedJob)
                                                          ELSE UnscheduleCall("PUT", updatedJob)}
  /\ UNCHANGED <<jobRuns, tasks, isRunning, cleanupTasks, execs, clock, nextJobId,
                 deleted, faults>>

\* the second half of POST and PUT: scheduleJob(job) with its updateLastRunTime
\* (a Store error there is caught inside scheduleJob), or unscheduleJob(id)
RouteSchedule(p) ==
  /\ p \in pending
  /\ pending' = pending \ {p}
  /\ \E ok \in StoreOutcomes :
       /\ CountStoreError(ok)
       /\ IF p.call = "scheduleJob"
            THEN /\ tasks' = scheduleJobTasks(tasks, p.job)
                 /\ scheduledJobs' = IF ok THEN scheduleJobStore(scheduledJobs, p.job)
                                           ELSE scheduledJobs
            ELSE /\ ok
                 /\ tasks' = unscheduleJob(tasks, p.job.id)
                 /\ scheduledJobs' = scheduledJobs
  /\ UNCHANGED <<jobRuns, isRunning, cleanupTasks, execs, clock, nextJobId, deleted>>

\* DELETE /schedules/{id}: 404 when absent, else unscheduleJob(id) and
\* deleteScheduledJob(id), which takes the job's runs with it
DeleteSchedule(id) ==
  /\ getScheduledJob(id) # {}
  /\ tasks' = unscheduleJob(tasks, id)
  /\ scheduledJobs' = deleteScheduledJob(scheduledJobs, id)
  /\ jobRuns' = CascadeJobRuns(jobRuns, id)
  /\ deleted' = deleted \cup {id}
  /\ UNCHANGED <<isRunning, cleanupTasks, execs, pending, clock, nextJobId, faults>>

\* POST /startup: scheduler.start() (a no-op when already running), then
\* scheduleJob for every active job
Startup ==
  /\ isRunning \/ cleanupTasks < MaxCleanupTasks
  /\ isRunning' = TRUE
  /\ cleanupTasks' = IF isRunning THEN cleanupTasks ELSE cleanupTasks + 1
  /\ tasks' = {h \in tasks : h.id \notin {j.id : j \in getActiveScheduledJobs}}
                \cup UNION {scheduleJobTasks({}, j) : j \in getActiveScheduledJobs}
  /\ scheduledJobs' = {IF j.isActive
                         THEN CHOOSE k \in scheduleJobStore({j}, j) : TRUE
                         ELSE j : j \in scheduledJobs}
  /\ UNCHANGED <<jobRuns, execs, pending, clock, nextJobId, deleted, faults>>

\* tasks after loadScheduledJobs: scheduleJob for every active job of the Store
loadScheduledJobsTasks(ts) ==
  {h \in ts : h.id \notin {j.id : j \in getActiveScheduledJobs}}
    \cup UNION {scheduleJobTasks({}, j) : j \in getActiveScheduledJobs}

\* scheduled_jobs after loadScheduledJobs
loadScheduledJobsStore(jobs) ==
  {IF j.isActive THEN CHOOSE k \in scheduleJobStore({j}, j) : TRUE ELSE j : j \in jobs}

\* POST /scheduler/status {action: start}: start() returns at once when running;
\* else it loads the active jobs (a failed read is logged and swallowed) and
\* registers one more cleanup cron, of which it keeps no handle
Start ==
  /\ ~isRunning
  /\ cleanupTasks < MaxCleanupTasks
  /\ isRunning' = TRUE
  /\ cleanupTasks' = cleanupTasks + 1
  /\ \E ok \in StoreOutcomes :
       /\ CountStoreError(ok)
       /\ tasks' = IF ok THEN loadScheduledJobsTasks(tasks) ELSE tasks
       /\ scheduledJobs' = IF ok THEN loadScheduledJobsStore(scheduledJobs) ELSE scheduledJobs
  /\ UNCHANGED <<jobRuns, execs, pending, clock, nextJobId, deleted>>

\* POST /scheduler/status {action: stop}: stop() returns at once when not
\* running; else it stops and drops every job handle and clears isRunning
Stop ==
  /\ isRunning
  /\ tasks' = {}
  /\ isRunning' = FALSE
  /\ UNCHANGED <<scheduledJobs, jobRuns, cleanupTasks, execs, pending, clock, nextJobId,
                 deleted, faults>>

\* POST /scheduler/reload: reload() drops every job handle and loads the
\* active jobs again (a failed read is logged and swallowed)
Reload ==
  /\ \E ok \in StoreOutcomes :
       /\ CountStoreError(ok)
       /\ tasks' = IF ok THEN loadScheduledJobsTasks({}) ELSE {}
       /\ scheduledJobs' = IF ok THEN loadScheduledJobsStore(scheduledJobs) ELSE scheduledJobs
  /\ UNCHANGED <<jobRuns, isRunning, cleanupTasks, execs, pending, clock, nextJobId, deleted>>

\* ---- environment --------------------------------------------------------

\* the process dies and a new one comes up: the database file survives, the
\* scheduler singleton and every handler in flight do not
Crash ==
  /\ faults < MaxFaults
  /\ faults' = faults + 1
  /\ tasks' = {}
  /\ isRunning' = FALSE
  /\ cleanupTasks' = 0
  /\ execs' = {IF e.pc \in InFlight THEN [e EXCEPT !.pc = "crashed"] ELSE e : e \in execs}
  /\ pending' = {}
  /\ UNCHANGED <<scheduledJobs, jobRuns, clock, nextJobId, deleted>>

Advance ==
  /\ clock < MaxClock
  /\ clock' = clock + 1
  /\ UNCHANGED <<scheduledJobs, jobRuns, tasks, isRunning, cleanupTasks, execs, pending,
                 nextJobId, deleted, faults>>

Init ==
  /\ scheduledJobs = {}
  /\ jobRuns = {}
  /\ tasks = {}
  /\ isRunning = FALSE
  /\ cleanupTasks = 0
  /\ execs = {}
  /\ pending = {}
  /\ clock = 0
  /\ nextJobId = 1
  /\ deleted = {}
  /\ faults = 0

Next ==
  \/ \E h \in tasks : TickFire(h)
  \/ \E id \in JobIds : ManualFire(id)
  \/ \E e \in execs : ExecCreate(e)
  \/ \E e \in execs : RunnerReturns(e)
  \/ \E e \in execs : RunnerThrows(e)
  \/ \E e \in execs : ExecComplete(e)
  \/ \E e \in execs : ExecLastRun(e)
  \/ \E e \in execs : ExecCatch(e)
  \/ \E interval \in Intervals, isActive \in BOOLEAN : PostSchedule(interval, isActive)
  \/ \E id \in JobIds, isActive \in BOOLEAN : PutSchedule(id, isActive)
  \/ \E p \in pending : RouteSchedule(p)
  \/ \E id \in JobIds : DeleteSchedule(id)
  \/ Startup
  \/ Start
  \/ Stop
  \/ Reload
  \/ Crash
  \/ Advance

Spec == Init /\ [][Next]_vars

\* ---- Recurrence in full -------------------------------------------------
\* Instants are minutes since Monday 2024-01-01 00:00 in the job's zone; a
\* schedule_config holds <<>> for a field it lacks, time as <<hour, minute>>.

MonthLengths == <<31, 29, 31, 30, 31, 30, 31, 31, 30, 31, 30, 31>>

MinuteOf(t) == t % 60
HourOf(t) == (t \div 60) % 24
DayOf(t) == t \div 1440

\* luxon's weekday % 7 and cron's day of week: Sunday is 0
WeekdayOf(t) == (DayOf(t) + 1) % 7

RECURSIVE MonthDay(_, _)
\* <<month, day of month>> of the day with index d counted from the 1st of month m
MonthDay(d, m) ==
  IF d < MonthLengths[m] THEN <<m, d + 1>> ELSE MonthDay(d - MonthLengths[m], m + 1)

MonthOf(t) == MonthDay(DayOf(t), 1)[1]
DayOfMonthOf(t) == MonthDay(DayOf(t), 1)[2]

\* now.set({hour, minute, second: 0, millisecond: 0})
SetTime(t, time) == DayOf(t) * 1440 + time[1] * 60 + time[2]

\* a cron field: "*", "*/n" or a list of values
Star == [kind |-> "any", step |-> 1, at |-> {}]
Step(n) == [kind |-> "step", step |-> n, at |-> {}]
At(S) == [kind |-> "at", step |-> 1, at |-> S]

\* `!config.interval`, `!config.date`: absent or 0
NoNumber(v) == v = Null \/ v = Some(0)

\* the five-field expression of buildCronExpression, or Null for "return null"
buildCronExpressionOf(scheduleType, config) ==
  CASE scheduleType = "interval" ->
         IF NoNumber(config.interval) \/ config.unit = Null THEN Null
         ELSE CASE config.unit = Some("minutes") ->
                     Some([minute |-> Step(config.interval[1]), hour |-> Star, dom |-> Star, dow |-> Star])
                [] config.unit = Some("hours") ->
                     Some([minute |-> At({0}), hour |-> Step(config.interval[1]), dom |-> Star, dow |-> Star])
                [] config.unit = Some("days") ->
                     Some([minute |-> At({0}), hour |-> At({0}), dom |-> Step(config.interval[1]), dow |-> Star])
                [] OTHER -> Null
    [] scheduleType = "hourly" ->
         Some([minute |-> At({0}), hour |-> Star, dom |-> Star, dow |-> Star])
    [] scheduleType = "daily" ->
         IF config.time = Null
           THEN Some([minute |-> At({0}), hour |-> At({0}), dom |-> Star, dow |-> Star])
           ELSE Some([minute |-> At({config.time[1][2]}), hour |-> At({config.time[1][1]}),
                      dom |-> Star, dow |-> Star])
    [] scheduleType = "weekly" ->
         IF config.time = Null \/ config.days = Null THEN Null
         ELSE Some([minute |-> At({config.time[1][2]}), hour |-> At({config.time[1][1]}),
                    dom |-> Star, dow |-> At(config.days[1])])
    [] scheduleType = "monthly" ->
         IF config.time = Null \/ NoNumber(config.date) THEN Null
         ELSE Some([minute |-> At({config.time[1][2]}), hour |-> At({config.time[1][1]}),
                    dom |-> At({config.date[1]}), dow |-> Star])
    [] OTHER -> Null

\* nextMonthly.plus({months: 1}): the same day of the next month, cut to its length
PlusMonth(t) ==
  LET m == MonthOf(t)
      d == DayOfMonthOf(t)
      first == t - (d - 1) * 1440
      day == IF d <= MonthLengths[m + 1] THEN d ELSE MonthLengths[m + 1]
  IN  first + MonthLengths[m] * 1440 + (day - 1) * 1440

\* the DateTime of calculateNextRun at the instant now, or Null for "return null"
calculateNextRunAt(scheduleType, config, now) ==
  CASE scheduleType = "interval" ->
         IF NoNumber(config.interval) \/ config.unit = Null THEN Null
         ELSE CASE config.unit = Some("minutes") -> Some(now + config.interval[1])
                [] config.unit = Some("hours") -> Some(now + 60 * config.interval[1])
                [] config.unit = Some("days") -> Some(now + 1440 * config.interval[1])
                [] OTHER -> Null
    [] scheduleType = "hourly" -> Some(((now \div 60) + 1) * 60)
    [] scheduleType = "daily" ->
         IF config.time = Null THEN Some((DayOf(now) + 1) * 1440)
         ELSE LET nextDaily == SetTime(now, config.time[1])
              IN  Some(IF nextDaily <= now THEN nextDaily + 1440 ELSE nextDaily)
    [] scheduleType = "weekly" ->
         IF config.time = Null \/ config.days = Null THEN Null
         ELSE LET nextWeekly == SetTime(now, config.time[1])
                  hits == {i \in 0..6 : /\ WeekdayOf(nextWeekly + i * 1440) \in config.days[1]
                                        /\ nextWeekly + i * 1440 > now}
              IN  IF hits = {} THEN Null
                  ELSE Some(nextWeekly + 1440 * (CHOOSE i \in hits : \A k \in hits : i <= k))
    [] scheduleType = "monthly" ->
         IF config.time = Null \/ NoNumber(config.date) THEN Null
         ELSE LET first == (DayOf(now) - (DayOfMonthOf(now) - 1)) * 1440
                  nextMonthly == first + (config.date[1] - 1) * 1440
                                   + config.time[1][1] * 60 + config.time[1][2]
              IN  Some(IF nextMonthly <= now THEN PlusMonth(nextMonthly) ELSE nextMonthly)
    [] OTHER -> Null

\* calculateNextRun of the create route ("a simplified calculation"); Null
\* when the sum is NaN (no interval given) and toISOString throws
routeCalculateNextRunAt(scheduleType, config, now) ==
  IF scheduleType = "interval" /\ config.unit \in {Some("minutes"), Some("hours"), Some("days")}
    THEN IF config.interval = Null THEN Null
         ELSE CASE config.unit = Some("minutes") -> Some(now + config.interval[1])
                [] config.unit = Some("hours") -> Some(now + 60 * config.interval[1])
                [] config.unit = Some("days") -> Some(now + 1440 * config.interval[1])
    ELSE CASE scheduleType = "daily" -> Some(now + 1440)
           [] scheduleType = "weekly" -> Some(now + 7 * 1440)
           [] scheduleType = "monthly" -> Some(now + 30 * 1440)
           [] OTHER -> Some(now + 60)

\* ---- the cron dispatcher ------------------------------------------------

FieldMatches(f, v) ==
  CASE f.kind = "any" -> TRUE
    [] f.kind = "step" -> v % f.step = 0
    [] f.kind = "at" -> v \in f.at

\* the task registered for the expression fires at the instant t
CronFires(cron, t) ==
  /\ FieldMatches(cron.minute, MinuteOf(t))
  /\ FieldMatches(cron.hour, HourOf(t))
  /\ FieldMatches(cron.dom, DayOfMonthOf(t))
  /\ FieldMatches(cron.dow, WeekdayOf(t))

\* the first instant after ref at which the expression fires
NextFireAfter(cron, ref) ==
  LET fires == {t \in (ref + 1)..(ref + Horizon) : CronFires(cron, t)}
  IN  CHOOSE t \in fires : \A u \in fires : t <= u

\* ---- create and update with their full bodies ---------------------------
\* The same tables and handlers with the columns the routes validate and
\* derive: job_type, url, urls, schedule_type, schedule_config, next_run_at.
\* Each handler runs to its end in one step.

JobTypes == {"scrape", "crawl", "map", "batch"}
UrlValues == {Null, Some("u")}
UrlsValues == {Null, Some(<<>>), Some(<<"u">>)}

Config(interval, unit, time) ==
  [interval |-> interval, unit |-> unit, time |-> time, days |-> Null, date |-> Null]

\* <<schedule_type, schedule_config>> of the requests
Schedules ==
  { <<"interval", Config(Some(15), Some("minutes"), Null)>>,
    <<"interval", Config(Some(2), Some("hours"), Null)>>,
    <<"interval", Config(Some(15), Null, Null)>>,
    <<"interval", Config(Null, Some("minutes"), Null)>>,
    <<"hourly", Config(Null, Null, Null)>>,
    <<"daily", Config(Null, Null, Some(<<9, 30>>))>>,
    <<"daily", Config(Null, Null, Null)>> }

\* the instants at which requests arrive: Monday 09:30, 12:00, 12:07
Refs == {570, 720, 727}

\* the 400 answers of POST: url for scrape, crawl, map; a non-empty urls for batch
PostRejects(jobType, url, urls) ==
  \/ jobType \in {"scrape", "crawl", "map"} /\ url = Null
  \/ jobType = "batch" /\ urls \in {Null, Some(<<>>)}

\* the row after scheduleJob(job) at the instant now: next_run_at from
\* calculateNextRun, last_run_at from the snapshot
scheduleJobRow(job, now) ==
  IF \/ buildCronExpressionOf(job.scheduleType, job.scheduleConfig) = Null
     \/ calculateNextRunAt(job.scheduleType, job.scheduleConfig, now) = Null
    THEN job
    ELSE [job EXCEPT !.lastRunAt = IF job.lastRunAt = Null THEN Empty ELSE job.lastRunAt,
                     !.nextRunAt = calculateNextRunAt(job.scheduleType, job.scheduleConfig, now)]

\* tasks after scheduleJob(job): the callback of the handle holds the job
scheduleJobHandle(ts, job) ==
  IF buildCronExpressionOf(job.scheduleType, job.scheduleConfig) = Null
    THEN unscheduleJob(ts, job.id)
    ELSE unscheduleJob(ts, job.id)
           \cup {[id |-> job.id,
                  cron |-> buildCronExpressionOf(job.scheduleType, job.scheduleConfig)[1],
                  scheduleType |-> job.scheduleType, scheduleConfig |-> job.scheduleConfig]}

\* POST /schedules with a full body
PostBody(jobType, url, urls, schedule, isActive) ==
  /\ nextJobId <= MaxJobs
  /\ ~PostRejects(jobType, url, urls)
  /\ routeCalculateNextRunAt(schedule[1], schedule[2], clock) # Null
  /\ LET newJob == [id |-> nextJobId, jobType |-> jobType, url |-> url, urls |-> urls,
                    scheduleType |-> schedule[1], scheduleConfig |-> schedule[2],
                    isActive |-> isActive, updatedAt |-> clock, lastRunAt |-> Null,
                    nextRunAt |-> routeCalculateNextRunAt(schedule[1], schedule[2], clock)]
     IN  /\ scheduledJobs' = scheduledJobs \cup
                               {IF isActive THEN scheduleJobRow(newJob, clock) ELSE newJob}
         /\ tasks' = IF isActive THEN scheduleJobHandle(tasks, newJob) ELSE tasks
  /\ nextJobId' = nextJobId + 1
  /\ UNCHANGED <<jobRuns, isRunning, cleanupTasks, execs, pending, clock, deleted, faults>>

\* the bodies of PUT: any subset of columns, here one at a time
Patches ==
  {[url |-> v] : v \in UrlValues} \cup {[urls |-> v] : v \in UrlsValues}
    \cup {[jobType |-> v] : v \in JobTypes} \cup {[isActive |-> v] : v \in BOOLEAN}
    \cup {[scheduleType |-> sc[1], scheduleConfig |-> sc[2]] : sc \in Schedules}

\* .set({...updates, updatedAt})
ApplyPatch(job, patch, now) ==
  [f \in DOMAIN job |->
     IF f \in DOMAIN patch THEN patch[f] ELSE IF f = "updatedAt" THEN now ELSE job[f]]

\* PUT /schedules/{id} with a body
PutBody(id, patch) ==
  /\ getScheduledJob(id) # {}
  /\ LET updatedJob == ApplyPatch(CHOOSE j \in getScheduledJob(id) : TRUE, patch, clock)
     IN  /\ scheduledJobs' = deleteScheduledJob(scheduledJobs, id) \cup
                               {IF updatedJob.isActive THEN scheduleJobRow(updatedJob, clock)
                                                       ELSE updatedJob}
         /\ tasks' = IF updatedJob.isActive THEN scheduleJobHandle(tasks, updatedJob)
                                            ELSE unscheduleJob(tasks, id)
  /\ UNCHANGED <<jobRuns, isRunning, cleanupTasks, execs, pending, clock, nextJobId,
                 deleted, faults>>

\* time passes between two requests
Pass(t) ==
  /\ t \in Refs /\ t > clock
  /\ clock' = t
  /\ UNCHANGED <<scheduledJobs, jobRuns, tasks, isRunning, cleanupTasks, execs, pending,
                 nextJobId, deleted, faults>>

InitBodies ==
  /\ scheduledJobs = {}
  /\ jobRuns = {}
  /\ tasks = {}
  /\ isRunning = FALSE
  /\ cleanupTasks = 0
  /\ execs = {}
  /\ pending = {}
  /\ clock \in Refs
  /\ nextJobId = 1
  /\ deleted = {}
  /\ faults = 0

NextBodies ==
  \/ \E jobType \in JobTypes, url \in UrlValues, urls \in UrlsValues,
        schedule \in Schedules, isActive \in BOOLEAN :
       PostBody(jobType, url, urls, schedule, isActive)
  \/ \E id \in JobIds, patch \in Patches : PutBody(id, patch)
  \/ \E t \in Refs : Pass(t)

SpecBodies == InitBodies /\ [][NextBodies]_vars

\* ---- weekly and monthly schedules over the calendar ----------------------
\* The same handlers with weekly and monthly schedules, requests and ticks at
\* instants of January and February 2024, and each run taken in one step.

CalendarConfig(time, days, date) ==
  [interval |-> Null, unit |-> Null, time |-> time, days |-> days, date |-> date]

CalendarSchedules ==
  { <<"weekly", CalendarConfig(Some(<<9, 0>>), Some({1}), Null)>>,
    <<"weekly", CalendarConfig(Some(<<9, 0>>), Some({1, 3, 5}), Null)>>,
    <<"weekly", CalendarConfig(Some(<<9, 0>>), Some({0}), Null)>>,
    <<"monthly", CalendarConfig(Some(<<9, 0>>), Null, Some(15))>>,
    <<"monthly", CalendarConfig(Some(<<9, 0>>), Null, Some(30))>>,
    <<"monthly", CalendarConfig(Some(<<9, 0>>), Null, Some(31))>> }

\* Monday January 1 09:00 and 10:00, Sunday January 7 12:00, Monday January 15
\* 09:00, Wednesday January 31 09:00 and 10:00, Thursday February 1 00:05
CalendarRefs == {540, 600, 9360, 20700, 43740, 43800, 44645}

\* the first instant after ref at which the expression fires, searched over
\* the seven days that hold every weekday
NextFireInWeek(cron, ref) ==
  LET fires == {t \in (ref + 1)..(ref + 7 * 1440) : CronFires(cron, t)}
  IN  CHOOSE t \in fires : \A u \in fires : t <= u

\* the row of one run of `job` that ends at once
RunRow(runId, jobId, runType, ok) ==
  CHOOSE r \in updateJobRun({NewJobRun(runId, jobId, runType)}, runId,
                            IF ok THEN CompletedPatch(0) ELSE FailedPatch(runType, "runner")) : TRUE

\* executeJob(job) from the tick of the handle to its end; ok: the Runner resolved
executeJobRun(h, ok) ==
  /\ h \in tasks
  /\ CronFires(h.cron, clock)
  /\ Cardinality(jobRuns) < MaxExecs
  /\ IF FindActive(h.id) = {}
       THEN /\ tasks' = unscheduleJob(tasks, h.id)
            /\ UNCHANGED <<scheduledJobs, jobRuns>>
       ELSE /\ tasks' = tasks
            /\ jobRuns' = jobRuns \cup {RunRow(Cardinality(jobRuns) + 1, h.id, "scheduled", ok)}
            /\ scheduledJobs' =
                 IF ok
                   THEN LET nextRun == calculateNextRunAt(h.scheduleType, h.scheduleConfig, clock)
                        IN  updateLastRunTime(scheduledJobs, h.id, Some(clock),
                                              IF nextRun # Null THEN nextRun ELSE Empty)
                   ELSE scheduledJobs
  /\ UNCHANGED <<isRunning, cleanupTasks, execs, pending, clock, nextJobId, deleted, faults>>

\* executeJobManually(jobId) of an active job to its end
executeJobManuallyRun(id, ok) ==
  /\ FindActive(id) # {}
  /\ Cardinality(jobRuns) < MaxExecs
  /\ LET job == CHOOSE j \in FindActive(id) : TRUE
         nextRun == calculateNextRunAt(job.scheduleType, job.scheduleConfig, clock)
     IN  /\ jobRuns' = jobRuns \cup {RunRow(Cardinality(jobRuns) + 1, id, "manual", ok)}
         /\ scheduledJobs' =
              IF ok
                THEN updateLastRunTime(scheduledJobs, id, Some(clock),
                                       IF nextRun # Null THEN nextRun
                                       ELSE IF job.nextRunAt = Null THEN Empty ELSE job.nextRunAt)
                ELSE scheduledJobs
  /\ UNCHANGED <<tasks, isRunning, cleanupTasks, execs, pending, clock, nextJobId, deleted,
                 faults>>

\* the bodies of PUT: pause, resume, or another schedule
CalendarPatches ==
  {[isActive |-> v] : v \in BOOLEAN}
    \cup {[scheduleType |-> sc[1], scheduleConfig |-> sc[2]] : sc \in CalendarSchedules}

PassCalendar(t) ==
  /\ t \in CalendarRefs /\ t > clock
  /\ clock' = t
  /\ UNCHANGED <<scheduledJobs, jobRuns, tasks, isRunning, cleanupTasks, execs, pending,
                 nextJobId, deleted, faults>>

InitCalendar ==
  /\ scheduledJobs = {}
  /\ jobRuns = {}
  /\ tasks = {}
  /\ isRunning = FALSE
  /\ cleanupTasks = 0
  /\ execs = {}
  /\ pending = {}
  /\ clock \in CalendarRefs
  /\ nextJobId = 1
  /\ deleted = {}
  /\ faults = 0

NextCalendar ==
  \/ \E schedule \in CalendarSchedules, isActive \in BOOLEAN :
       PostBody("crawl", Some("u"), Null, schedule, isActive)
  \/ \E id \in JobIds, patch \in CalendarPatches : PutBody(id, patch)
  \/ \E h \in tasks, ok \in BOOLEAN : executeJobRun(h, ok)
  \/ \E id \in JobIds, ok \in BOOLEAN : executeJobManuallyRun(id, ok)
  \/ \E t \in CalendarRefs : PassCalendar(t)

SpecCalendar == InitCalendar /\ [][NextCalendar]_vars

\* ---- the Runner ---------------------------------------------------------
\* executeScheduledJob cut at its awaits: the initial POST, each status GET of
\* the poll loop and the five seconds between two polls.  execs holds the one
\* execution under way; the remote answers, or does not, as it pleases.

maxAttempts == 120

PollTypes == {"crawl", "batch"}

\* an execution awaiting the answer of its initial POST, the abort timer armed
\*   pc       "post" | "get" | "sleep" | "done"
\*   attempts the counter of the poll loop;  gets: status GETs sent so far
\*   seen     the status of the last answer to a GET;  body: its data or error
NewRun(jobType) ==
  [jobType |-> jobType, pc |-> "post", attempts |-> 0, gets |-> 0, seen |-> "none",
   body |-> "none", outcome |-> "running", result |-> "none", error |-> "none"]

Returned(e, result) == [e EXCEPT !.pc = "done", !.outcome = "returned", !.result = result]

Threw(e, error) == [e EXCEPT !.pc = "done", !.outcome = "threw", !.error = error]

\* mutant: the loop admits one more attempt
WhileOneMore(attempts) == attempts <= maxAttempts

\* while (attempts < maxAttempts)
WhileAttempts(attempts) == attempts < maxAttempts

\* the head of the poll loop with the counter at attempts: the next GET is
\* sent, or the loop is left and the time-out error thrown
pollJob(e, attempts) ==
  IF WhileAttempts(attempts)
    THEN [e EXCEPT !.pc = "get", !.attempts = attempts, !.gets = e.gets + 1]
    ELSE Threw([e EXCEPT !.attempts = attempts], "job timed out")

\* executeScheduledJob(job): the POST of the job type is sent
executeScheduledJob(jobType) ==
  /\ \A e \in execs : e.pc = "done"
  /\ execs' = {NewRun(jobType)}
  /\ UNCHANGED <<scheduledJobs, jobRuns, tasks, isRunning, cleanupTasks, pending, clock,
                 nextJobId, deleted, faults>>

\* the POST is answered: not ok, a body with the id of a remote job, or a
\* body with the data
PostAnswers(e, answer) ==
  /\ e \in execs /\ e.pc = "post"
  /\ answer \in {"notok", "id", "data"}
  /\ execs' = {CASE answer = "notok" -> Threw(e, "request failed")
                 [] answer = "id" /\ e.jobType \in PollTypes -> pollJob(e, 0)
                 [] OTHER -> Returned(e, "data")}
  /\ UNCHANGED <<scheduledJobs, jobRuns, tasks, isRunning, cleanupTasks, pending, clock,
                 nextJobId, deleted, faults>>

\* setTimeout(() => controller.abort(), ...) fires before the POST is answered
PostAborts(e) ==
  /\ e \in execs /\ e.pc = "post"
  /\ execs' = {Threw(e, "request timed out")}
  /\ UNCHANGED <<scheduledJobs, jobRuns, tasks, isRunning, cleanupTasks, pending, clock,
                 nextJobId, deleted, faults>>

\* fetch rejects: the remote cannot be reached
FetchRejects(e) ==
  /\ e \in execs /\ e.pc \in {"post", "get"}
  /\ execs' = {Threw(e, "fetch failed")}
  /\ UNCHANGED <<scheduledJobs, jobRuns, tasks, isRunning, cleanupTasks, pending, clock,
                 nextJobId, deleted, faults>>

\* a status GET is answered: not ok, or a body with its status and its data
\* or error ("absent" when the body has none)
GetAnswers(e, status, body) ==
  /\ e \in execs /\ e.pc = "get"
  /\ status \in {"notok", "completed", "failed", "scraping"}
  /\ body \in {"absent", "content"}
  /\ LET f == [e EXCEPT !.seen = status, !.body = body] IN
     execs' = {CASE status = "notok" -> Threw(f, "status check failed")
                 [] status = "completed" -> Returned(f, IF body = "absent" THEN "[]" ELSE body)
                 [] status = "failed" -> Threw(f, IF body = "absent" THEN "job failed" ELSE body)
                 [] OTHER -> [f EXCEPT !.pc = "sleep"]}
  /\ UNCHANGED <<scheduledJobs, jobRuns, tasks, isRunning, cleanupTasks, pending, clock,
                 nextJobId, deleted, faults>>

\* the five seconds are over: attempts++ and back to the head of the loop
Wake(e) ==
  /\ e \in execs /\ e.pc = "sleep"
  /\ execs' = {pollJob(e, e.attempts + 1)}
  /\ UNCHANGED <<scheduledJobs, jobRuns, tasks, isRunning, cleanupTasks, pending, clock,
                 nextJobId, deleted, faults>>

InitRunner ==
  /\ scheduledJobs = {}
  /\ jobRuns = {}
  /\ tasks = {}
  /\ isRunning = FALSE
  /\ cleanupTasks = 0
  /\ execs = {}
  /\ pending = {}
  /\ clock = 0
  /\ nextJobId = 1
  /\ deleted = {}
  /\ faults = 0

NextRunner ==
  \/ \E jobType \in JobTypes : executeScheduledJob(jobType)
  \/ \E e \in execs, answer \in {"notok", "id", "data"} : PostAnswers(e, answer)
  \/ \E e \in execs : PostAborts(e)
  \/ \E e \in execs : FetchRejects(e)
  \/ \E e \in execs, status \in {"notok", "completed", "failed", "scraping"},
        body \in {"absent", "content"} : GetAnswers(e, status, body)
  \/ \E e \in execs : Wake(e)

SpecRunner == InitRunner /\ [][NextRunner]_vars

\* the timers of the Runner fire: the abort of the POST and the pause of the
\* poll loop; nothing obliges the remote to answer
SpecRunnerFair ==
  /\ SpecRunner
  /\ WF_vars(\E e \in execs : PostAborts(e))
  /\ WF_vars(\E e \in execs : Wake(e))

\* ---- start, reload and the startup route, registration by registration ---
\* loadScheduledJobs reads the active set and then awaits scheduleJob job by
\* job; requests are served between two of its awaits.  execs holds the
\* registrations a loader has read and not yet made.

LoaderCall(route, job) == [route |-> route, job |-> job]

\* const jobs = await getActiveScheduledJobs(): the registrations to make; a
\* failed read is caught and nothing is registered
loadScheduledJobsRead(route, ok) ==
  IF ok THEN {LoaderCall(route, j) : j \in getActiveScheduledJobs} ELSE {}

\* reload(): every handle is stopped and dropped, then the active set is read
ReloadRead ==
  /\ \E ok \in StoreOutcomes :
       /\ CountStoreError(ok)
       /\ execs' = execs \cup loadScheduledJobsRead("reload", ok)
  /\ tasks' = {}
  /\ UNCHANGED <<scheduledJobs, jobRuns, isRunning, cleanupTasks, pending, clock, nextJobId,
                 deleted>>

\* start(): nothing when running; else isRunning is set and the active set is
\* read; the cleanup cron is registered when the load is over
StartRead ==
  /\ ~isRunning
  /\ cleanupTasks < MaxCleanupTasks
  /\ isRunning' = TRUE
  /\ \E ok \in StoreOutcomes :
       /\ CountStoreError(ok)
       /\ execs' = execs \cup loadScheduledJobsRead("start", ok)
       /\ cleanupTasks' = IF loadScheduledJobsRead("start", ok) = {} THEN cleanupTasks + 1
                                                                     ELSE cleanupTasks
  /\ UNCHANGED <<scheduledJobs, jobRuns, tasks, pending, clock, nextJobId, deleted>>

\* POST /startup once its scheduler.start() has returned: getScheduledJobs,
\* the active ones are kept and registered one by one; a failed read answers 500
StartupRead ==
  /\ isRunning
  /\ \E ok \in StoreOutcomes :
       /\ CountStoreError(ok)
       /\ execs' = execs \cup loadScheduledJobsRead("startup", ok)
  /\ UNCHANGED <<scheduledJobs, jobRuns, tasks, isRunning, cleanupTasks, pending, clock,
                 nextJobId, deleted>>

\* await scheduleJob(job) of a loader, with its updateLastRunTime
LoadStep(c) ==
  /\ c \in execs
  /\ execs' = execs \ {c}
  /\ tasks' = scheduleJobTasks(tasks, c.job)
  /\ \E ok \in StoreOutcomes :
       /\ CountStoreError(ok)
       /\ scheduledJobs' = IF ok THEN scheduleJobStore(scheduledJobs, c.job) ELSE scheduledJobs
  /\ cleanupTasks' = IF c.route = "start" /\ ~\E d \in execs \ {c} : d.route = "start"
                       THEN cleanupTasks + 1
                       ELSE cleanupTasks
  /\ UNCHANGED <<jobRuns, isRunning, pending, clock, nextJobId, deleted>>

NextRegistry ==
  \/ \E interval \in Intervals, isActive \in BOOLEAN : PostSchedule(interval, isActive)
  \/ \E id \in JobIds, isActive \in BOOLEAN : PutSchedule(id, isActive)
  \/ \E p \in pending : RouteSchedule(p)
  \/ \E id \in JobIds : DeleteSchedule(id)
  \/ Stop
  \/ ReloadRead
  \/ StartRead
  \/ StartupRead
  \/ \E c \in execs : LoadStep(c)

SpecRegistry == Init /\ [][NextRegistry]_vars

\* ---- properties ---------------------------------------------------------

Terminal == {"completed", "failed"}

RowOf(e) == {r \in jobRuns : r.id = e.runId}

\* the run's handler died with the process
CutByCrash(r) == \E e \in execs : e.runId = r.id /\ e.pc = "crashed"

\* [started_at, completed_at]; a row still running reaches past now
RunEnd(r) == IF r.completedAt = Null THEN clock + 1 ELSE r.completedAt[1]

Overlap(a, b) == a.startedAt < RunEnd(b) /\ b.startedAt < RunEnd(a)

SameJob(a, b) == a.id # b.id /\ a.scheduledJobId = b.scheduledJobId
                   /\ ~CutByCrash(a) /\ ~CutByCrash(b)

\* C1: no two JobRun rows of scheduled ticks of the same job have overlapping
\* [started_at, completed_at] intervals (a tick that arrives while a run of
\* the job is in flight creates no row).
SingleFlightScheduled ==
  \A a, b \in jobRuns :
    (SameJob(a, b) /\ a.runType = "scheduled" /\ b.runType = "scheduled") => ~Overlap(a, b)

\* C2: a manual run of a job is never in flight at the same time as another
\* run of that job, scheduled or manual.
SingleFlightManual ==
  \A a, b \in jobRuns :
    (SameJob(a, b) /\ a.runType = "manual") => ~Overlap(a, b)

\* C3: a JobRun row that has reached completed or failed is never written
\* again: in every step it stays as it is, or it is deleted.
TerminalRowsImmutable ==
  [][\A r \in jobRuns :
       r.status \in Terminal => (r \in jobRuns' \/ ~\E q \in jobRuns' : q.id = r.id)]_vars

\* C4: once the handler that created a JobRun row is over (returned or
\* threw), in a process that did not crash, the row is no longer running.
TerminalRowRecorded ==
  \A e \in execs : e.pc \in Ended => \A r \in RowOf(e) : r.status # "running"

\* C5 (as claimed): whenever the Runner threw, the handler, scheduled or
\* manual, has written the failure to the row and returned normally.
RunnerFailureNeverPropagates ==
  \A e \in execs :
    (e.error = "runner" /\ e.pc \in Ended) =>
      (e.thrown = "none" /\ \A r \in RowOf(e) : r.status = "failed")

\* C5 (amended): whenever the Runner threw and the write of the failure went
\* through, the row (if not deleted meanwhile) is failed with the Runner's
\* message, executeJob has returned normally and executeJobManually has
\* rethrown the Runner's error; when that write itself failed, the Store
\* error leaves the handler and the row is still running.
RunnerFailureHandled ==
  \A e \in execs :
    (e.error = "runner" /\ e.pc \in Ended) =>
      IF e.updated = "failed"
        THEN e.thrown = "store" /\ \A r \in RowOf(e) : r.status = "running"
        ELSE /\ \A r \in RowOf(e) : r.status = "failed" /\ r.errorMessage = Some("runner")
             /\ e.thrown = IF e.runType = "manual" THEN "runner" ELSE "none"

\* C5 witness: a scheduled tick that swallowed a Runner failure next to a
\* manual run that rethrew one, both rows failed.
RunnerFailureWitness ==
  \E e1, e2 \in execs :
    /\ e1.runType = "scheduled" /\ e1.error = "runner" /\ e1.pc = "returned"
    /\ \E r \in RowOf(e1) : r.status = "failed"
    /\ e2.runType = "manual" /\ e2.error = "runner" /\ e2.thrown = "runner"
    /\ \E r \in RowOf(e2) : r.status = "failed"

\* C6: every completed or failed JobRun row has completed_at set and
\* execution_time_ms set to an integer >= 0.
TerminalExclusivity ==
  \A r \in jobRuns :
    r.status \in Terminal =>
      (r.completedAt # Null /\ r.executionTimeMs # Null /\ r.executionTimeMs[1] >= 0)

\* C7: every completed or failed JobRun row has exactly one of result_data
\* and error_message set, and error_message is set iff the row is failed.
ResultXorError ==
  \A r \in jobRuns :
    r.status \in Terminal =>
      /\ (r.errorMessage # Null) <=> (r.status = "failed")
      /\ (r.resultData # Null) <=> (r.errorMessage = Null)

\* the step in which a tick finds its job missing leaves no handle for the job
\* and no new row
TickGuardStep ==
  \A e \in execs' :
    (e \notin execs /\ e.runId = NextRunId /\ e.runType = "scheduled"
       /\ e.currentJob = "missing")
      => ((~\E h \in tasks' : h.id = e.jobId) /\ jobRuns' = jobRuns)

\* a tick that found its job missing has returned, without a row or a Runner call
TickGuardState ==
  \A e \in execs :
    (e.runType = "scheduled" /\ e.currentJob = "missing")
      => (e.pc = "returned" /\ ~e.invoked /\ RowOf(e) = {})

\* C8: a scheduled tick whose re-read finds its job missing or inactive
\* removes the job's handle in that very step, creates no JobRun row, never
\* invokes the Runner and returns.
TickGuard == []TickGuardState /\ [][TickGuardStep]_vars

\* C8 witness: a tick has found its job missing (paused or deleted between
\* the Store write and the unregistration) and has returned.
TickGuardWitness ==
  \E e \in execs :
    e.runType = "scheduled" /\ e.currentJob = "missing" /\ e.pc = "returned"
      /\ ~\E h \in tasks : h.id = e.jobId

\* C9: once startup has run in the new process, no JobRun row that a crashed
\* process left in status running is still running.
RestartRecovery ==
  isRunning => \A r \in getRunningJobs : ~CutByCrash(r)

\* C10: once DELETE of a job has completed no JobRun row of that job exists,
\* whatever runs of it were in flight.
Cascade == \A id \in deleted : getJobRuns(id) = {}

\* C10 witness: a run that was in flight when its job was deleted has since
\* ended, its last write having found no row.
CascadeWitness ==
  \E e \in execs :
    e.jobId \in deleted /\ e.invoked /\ e.pc \in Ended /\ e.updated = "norow"

\* C11: the step that completes a successful PUT leaves a handle for the job
\* exactly when the updated row is active: registered if active, no handle
\* if paused.
PutRegistersIffActive ==
  [][\A p \in pending :
       (p.route = "PUT" /\ RouteSchedule(p))
         => ((\E h \in tasks' : h.id = p.job.id) <=> p.job.isActive)]_vars

\* C12: while a job stays paused no step writes its next_run_at, not even
\* the end of a run that was in flight when it was paused.
PausedNextRunUntouched ==
  [][\A j \in scheduledJobs : \A k \in scheduledJobs' :
       (k.id = j.id /\ ~j.isActive /\ ~k.isActive) => k.nextRunAt = j.nextRunAt]_vars

\* C13: a stopped scheduler has no cleanup task left, and at no time is more
\* than one cleanup task registered.
StopUnregistersAll ==
  /\ cleanupTasks <= 1
  /\ ~isRunning => cleanupTasks = 0

\* C14: in the step in which stop() returns, no execution, scheduled or
\* manual, whose Runner call has started is still in flight (in the Runner or
\* with writes still to come).
StopWaitsForRuns ==
  [][Stop => \A e \in execs' : ~(e.invoked /\ e.pc \in InFlight)]_vars

\* C15: the step of reload(), taken while no create or update is between
\* its Store write and its scheduler call, leaves a handle for exactly the
\* ids of the active jobs of the Store and leaves the cleanup task as it was.
ReloadEqualsFreshLoad ==
  [][(Reload /\ pending = {})
            => /\ {h.id : h \in tasks'} = {j.id : j \in {k \in scheduledJobs' : k.isActive}}
               /\ cleanupTasks' = cleanupTasks]_vars

\* C16: once the handler of a run attempt is over and its row is completed
\* or failed, the job (if still stored) has last_run_at at or after the
\* start of that run and next_run_at after it.
LastRunPersistedAfterEveryRun ==
  \A e \in execs : \A r \in RowOf(e) :
    (e.pc \in Ended /\ r.status \in Terminal) =>
      \A j \in getScheduledJob(r.scheduledJobId) :
        /\ j.lastRunAt \notin {Null, Empty}
        /\ j.lastRunAt[1] >= r.startedAt

\* C17: no create or update leaves a job in the Store whose schedule_config
\* is ill-formed for its schedule_type (such a request is answered 400 and
\* changes nothing).
IllFormedConfigRejected ==
  \A j \in scheduledJobs : buildCronExpression(j) # Null

\* C18: every stored job has exactly one of url and urls as its job_type
\* requires: url set and urls null for scrape, crawl and map; urls a
\* non-empty list and url null for batch.
UrlXorUrls ==
  \A j \in scheduledJobs :
    IF j.jobType = "batch"
      THEN j.url = Null /\ j.urls \notin {Null, Some(<<>>)}
      ELSE j.url # Null /\ j.urls = Null

WellFormed(j) == buildCronExpressionOf(j.scheduleType, j.scheduleConfig) # Null

\* C19: after every successful create or update the stored next_run_at of
\* the job, active or paused, is the first fire of its cron expression after
\* the instant of the write.
StoreRecurrenceConsistency ==
  \A j \in scheduledJobs :
    WellFormed(j) =>
      j.nextRunAt = Some(NextFireAfter(buildCronExpressionOf(j.scheduleType, j.scheduleConfig)[1],
                                       j.updatedAt))

\* C20: for the schedule of every stored job and every instant of a request,
\* calculateNextRun returns the first instant after it at which the cron
\* expression of buildCronExpression fires; Monday 12:07 with
\* interval 15 minutes gives 12:15.
NextRunIsNextFire ==
  \A j \in scheduledJobs : \A ref \in Refs :
    WellFormed(j) =>
      calculateNextRunAt(j.scheduleType, j.scheduleConfig, ref)
        = Some(NextFireAfter(buildCronExpressionOf(j.scheduleType, j.scheduleConfig)[1], ref))

\* C21: for a monthly schedule whose date is 29, 30 or 31 the next run
\* computed at any instant falls on the configured day of the month: it is
\* neither clamped to the end of a shorter month nor carried into the next.
MonthlyKeepsDate ==
  \A j \in scheduledJobs : \A ref \in CalendarRefs :
    (j.scheduleType = "monthly" /\ WellFormed(j) /\ j.scheduleConfig.date[1] \in 29..31) =>
      LET nextRun == calculateNextRunAt(j.scheduleType, j.scheduleConfig, ref)
      IN  nextRun # Null /\ DayOfMonthOf(nextRun[1]) = j.scheduleConfig.date[1]

\* C22: for a weekly schedule with a time and a non-empty set of days the
\* next run computed at any instant exists and is the first instant after it
\* that falls on a configured weekday at the configured time; on the only
\* configured weekday at or after the time it is one week later.
WeeklyTotal ==
  \A j \in scheduledJobs : \A ref \in CalendarRefs :
    (j.scheduleType = "weekly" /\ WellFormed(j) /\ j.scheduleConfig.days[1] # {}) =>
      calculateNextRunAt(j.scheduleType, j.scheduleConfig, ref)
        = Some(NextFireInWeek(buildCronExpressionOf(j.scheduleType, j.scheduleConfig)[1], ref))

\* C30: the next_run_at of every stored job is an instant, never null and
\* never the empty string.
NextRunAlwaysInstant ==
  \A j \in scheduledJobs : j.nextRunAt # Null /\ j.nextRunAt # Empty

\* C23: executeJobManually of an id that is not stored creates no job_runs
\* row, invokes no Runner, changes no scheduled_jobs row, and the run route
\* answers 404.
ManualAbsentNotFound ==
  [][\A id \in JobIds :
       (ManualFire(id) /\ faults' = faults /\ getScheduledJob(id) = {}) =>
         /\ jobRuns' = jobRuns
         /\ scheduledJobs' = scheduledJobs
         /\ \A e \in execs' \ execs : ~e.invoked /\ e.pc \in Ended /\ RunRouteStatus(e) = 404]_vars

\* C24: a polling run sends at most 120 status GETs; it returns the data of
\* the first answer whose status is completed, fails with the error of the
\* first answer whose status is failed, and fails with the time-out error
\* once 120 polls have seen neither.
PollBudget ==
  \A e \in execs :
    /\ e.gets <= maxAttempts
    /\ e.seen = "completed" =>
         e.outcome = "returned" /\ (e.body # "absent" => e.result = e.body)
    /\ e.seen = "failed" =>
         e.outcome = "threw" /\ (e.body # "absent" => e.error = e.body)
    /\ e.attempts = maxAttempts => e.outcome = "threw" /\ e.error = "job timed out"
    /\ e.error = "job timed out" =>
         e.attempts = maxAttempts /\ e.gets = maxAttempts /\ e.seen = "scraping"

PollBudgetWitness ==
  \E e \in execs :
    e.jobType \in PollTypes /\ e.gets = maxAttempts /\ e.error = "job timed out"

\* C25: every execution of the Runner ends, with a result or an error, even
\* when the remote never answers.
RunnerEnds ==
  (\E e \in execs : e.pc # "done") ~> (\A e \in execs : e.pc = "done")

\* C26: at most one live cron handle per job id in every reachable state,
\* under any interleaving of scheduleJob, unscheduleJob, reload, start and
\* the re-registration loop of the startup route.
OneHandlePerJob ==
  \A g \in tasks : \A h \in tasks : g.id = h.id => g = h

\* a handle is live while a loader and a request are each about to register
\* its job again
OneHandlePerJobWitness ==
  \E h \in tasks :
    /\ \E c \in execs : c.job.id = h.id
    /\ \E p \in pending : p.call = "scheduleJob" /\ p.job.id = h.id

\* C27: while the scheduler is stopped and no operation is in flight, no job
\* handle is registered.
StoppedHasNoHandles ==
  (~isRunning /\ pending = {} /\ execs = {}) => tasks = {}

\* C28: whenever no management operation is in flight, every registered job
\* id belongs to a stored job that is active.
HandlesOfActiveJobs ==
  (pending = {} /\ execs = {}) =>
    \A h \in tasks : \E j \in scheduledJobs : j.id = h.id /\ j.isActive

\* C29: the last_run_at of a job never moves backwards and never goes from
\* a recorded instant to empty, whatever registration runs beside the
\* completion of a run.
LastRunNeverRegresses ==
  [][\A j \in scheduledJobs : \A k \in scheduledJobs' :
       (j.id = k.id /\ j.lastRunAt # Null /\ j.lastRunAt # Empty) =>
         (k.lastRunAt # Null /\ k.lastRunAt[1] >= j.lastRunAt[1])]_vars

====
